---- MODULE Spec2Model ----
(***************************************************************************)
(* A model of src/app.py: the website session authority (generate_token,  *)
(* verify_token, token_required, login) and the Reolink cloud credential   *)
(* manager (ReonlinkCloudAPI), run by one start-up thread and a pool of     *)
(* request threads sharing valid_tokens and the reolink_api object.         *)
(*                                                                         *)
(* Strings that are split on ' ' are held as the list of their space-free   *)
(* segments (str.split(' ') and ' '.join are inverse bijections between     *)
(* strings and non-empty lists of space-free strings), each segment a      *)
(* record: [word |-> w] for plain text, a four-field record for the         *)
(* compact serialisation of a JWT.  Python's None is the string "None"      *)
(* for token fields and the empty sequence for optional times and headers.  *)
(***************************************************************************)
EXTENDS Integers, Sequences, FiniteSets, TLC

VARIABLES
    now,              \* the wall clock, in hours since process start
    ticks,            \* how many times the clock has advanced
    valid_tokens,     \* src/app.py:28
    issued,           \* every token generate_token has returned
    access_token,     \* reolink_api.access_token
    refresh_token,    \* reolink_api.refresh_token
    token_expiration, \* reolink_api.token_expiration: <<>> is None, <<t>> a time
    pc,               \* per thread: the statement it is about to run
    req,              \* per thread: the HTTP request it is serving
    out,              \* per thread: the value its handler or method returned
    resp,             \* per thread: the vendor login response it holds
    camReq,           \* per thread: the vendor camera request it sent
    camResp,          \* per thread: the vendor camera response it got
    authRet,          \* per thread: what its authenticate() call returned
    bearer,           \* per thread: the bearer value of its headers dict
    nLogin,           \* per thread: vendor login requests of this invocation
    nCam,             \* per thread: vendor camera requests of this invocation
    overwritten,      \* per thread: access_token was assigned since line 72
    loginSent,        \* some vendor login request has been sent
    opInvoked         \* some camera operation has been invoked

vars == <<now, ticks, valid_tokens, issued, access_token, refresh_token,
          token_expiration, pc, req, out, resp, camReq, camResp, authRet, bearer,
          nLogin, nCam, overwritten, loginSent, opInvoked>>

session == <<access_token, refresh_token, token_expiration>>
authority == <<valid_tokens, issued>>
clock == <<now, ticks>>
history == <<loginSent, opInvoked>>
locals == <<req, out, resp, camReq, camResp, authRet, bearer, nLogin, nCam, overwritten>>

-----------------------------------------------------------------------------
(* Bounds of the model. *)

MaxTicks == 1
MaxTokens == 1

(* The amounts by which the clock is advanced between steps, in hours. *)
TickSteps == {1, 23, 24}
DayStep == {24}

-----------------------------------------------------------------------------
(* Configuration. *)

SECRET_KEY == "secret"
WEBSITE_ID == "860"
WEBSITE_PASSWORD == "ocean"
TokenHours == 24
SessionHours == 23

None == "None"
(* Thread 0 imports the module (lines 1-213); threads 1 and 2 are the     *)
(* server's request threads.                                              *)
Main == 0
Workers == {1, 2}
Threads == {Main} \cup Workers

-----------------------------------------------------------------------------
(* Strings and the JWT library. *)

W(w) == [word |-> w]

JwtFields == {"user_id", "exp", "iat", "sig"}

(* HMAC-SHA256 of the payload under key, taken to be collision free. *)
Hmac(payload, key) ==
    [key |-> key, user_id |-> payload.user_id, exp |-> payload.exp,
     iat |-> payload.iat]

(* jwt.encode(payload, key, algorithm='HS256') *)
JwtEncode(payload, key) ==
    [user_id |-> payload.user_id, exp |-> payload.exp, iat |-> payload.iat,
     sig |-> Hmac(payload, key)]

(* jwt.decode(token, key, algorithms=['HS256']) at time t: "ok" or the name *)
(* of the exception raised.  The signature is checked before the claims.   *)
JwtDecode(token, key, t) ==
    IF DOMAIN token # JwtFields THEN "DecodeError"
    ELSE IF token.sig # Hmac(token, key) THEN "InvalidSignatureError"
    ELSE IF token.exp <= t THEN "ExpiredSignatureError"
    ELSE "ok"

(* The subclasses of jwt.InvalidTokenError that decode raises. *)
InvalidTokenErrors ==
    {"DecodeError", "InvalidSignatureError", "ExpiredSignatureError"}

-----------------------------------------------------------------------------
(* Session authority: src/app.py:161-203. *)

(* NewToken with the manager's 23 hours for the token's 24. *)
NewTokenShortLived(user_id, t) ==
    JwtEncode([user_id |-> user_id, exp |-> t + SessionHours, iat |-> t],
              SECRET_KEY)

(* Lines 163-168: the token generate_token builds at time t. *)
NewToken(user_id, t) ==
    JwtEncode([user_id |-> user_id, exp |-> t + TokenHours, iat |-> t],
              SECRET_KEY)

(* generate_token without line 169: the token is returned, not registered. *)
generate_token_unregistered(user_id) ==
    /\ valid_tokens' = valid_tokens
    /\ issued' = issued \cup {NewToken(user_id, now)}

(* generate_token that registers the next day's token with the returned one. *)
generate_token_and_next(user_id) ==
    /\ valid_tokens' = valid_tokens \cup {NewToken(user_id, now),
                                          NewToken(user_id, now + TokenHours)}
    /\ issued' = issued \cup {NewToken(user_id, now)}

(* Lines 169-170: generate_token(user_id) registers the token, returns it. *)
generate_token(user_id) ==
    /\ valid_tokens' = valid_tokens \cup {NewToken(user_id, now)}
    /\ issued' = issued \cup {NewToken(user_id, now)}

(* verify_token without the registry test of lines 176-177. *)
verify_token_unregistered(token) ==
    LET r == JwtDecode(token, SECRET_KEY, now)
    IN  IF r = "ok" THEN "True"
        ELSE IF r \in InvalidTokenErrors THEN "False"
        ELSE "raise"

(* Lines 173-183: "True", "False", or "raise" for an exception that no     *)
(* except clause of verify_token catches.                                  *)
verify_token(token) ==
    IF token \notin valid_tokens THEN "False"
    ELSE LET r == JwtDecode(token, SECRET_KEY, now)
         IN  IF r = "ok" THEN "True"
             ELSE IF r = "ExpiredSignatureError" THEN "False"
             ELSE IF r \in InvalidTokenErrors THEN "False"
             ELSE "raise"

(* An Authorization header: absent, or the segments of its value. *)
NoHeader == [present |-> FALSE, parts |-> <<>>]
Header(parts) == [present |-> TRUE, parts |-> parts]

(* Python's "not token" for the header value: None or the empty string. *)
HeaderFalsy(h) == ~h.present \/ h.parts = <<W("")>>

Unauthorized(message) ==
    [status |-> 401, success |-> FALSE, message |-> message]

(* What decorated() does when it does not answer 401: it calls f, or an   *)
(* exception of verify_token leaves it.                                   *)
CallF == [status |-> 200, success |-> TRUE, message |-> "f"]
ServerError == [status |-> 500, success |-> FALSE, message |-> "exception"]

(* token_required with the message of line 196 on line 198 as well. *)
token_required_one_message(h) ==
    IF HeaderFalsy(h) THEN Unauthorized("No token provided")
    ELSE IF Len(h.parts) < 2 THEN Unauthorized("Invalid token")
    ELSE IF verify_token(h.parts[2]) = "False" THEN Unauthorized("Invalid token")
    ELSE CallF

(* token_required with the result of verify_token ignored on line 195. *)
token_required_unverified(h) ==
    IF HeaderFalsy(h) THEN Unauthorized("No token provided")
    ELSE IF Len(h.parts) < 2 THEN Unauthorized("Invalid token format")
    ELSE CallF

(* Lines 188-200: the decorator's own answer, or CallF when it calls f. *)
token_required(h) ==
    IF HeaderFalsy(h) THEN Unauthorized("No token provided")
    ELSE IF Len(h.parts) < 2 THEN Unauthorized("Invalid token format")
    ELSE LET v == verify_token(h.parts[2])
         IN  IF v = "raise" THEN ServerError
             ELSE IF v = "False" THEN Unauthorized("Invalid token")
             ELSE CallF

-----------------------------------------------------------------------------
(* The vendor cloud: what requests.post / requests.get may come back with. *)

(* requests.exceptions.RequestException: a timeout, a connection failure,  *)
(* or the HTTPError raise_for_status() raises on a non-2xx status.         *)
NetErrors == {"Timeout", "ConnectionError", "HTTPError"}

NetFailure(e) == [ok |-> FALSE, err |-> e]

(* An except clause that names requests.exceptions.Timeout only. *)
CaughtTimeoutOnly(e) == e = "Timeout"

(* Lines 62, 91, 115, 135, 156: "except requests.exceptions.RequestException" *)
(* catches e; what it does not catch leaves the method as an exception.       *)
Caught(e) == e \in NetErrors
Json(code, msg, data) == [ok |-> TRUE, code |-> code, msg |-> msg, data |-> data]

(* The vendor's credentials: non-empty strings, paired as it issued them. *)
VendorSessions ==
    {[access_token |-> "A", refresh_token |-> "RA"],
     [access_token |-> "B", refresh_token |-> "RB"]}

(* POST /login *)
LoginResponses ==
    {NetFailure(e) : e \in NetErrors}
    \cup {Json(1, "denied", [none |-> TRUE])}
    \cup {Json(0, "ok", d) : d \in VendorSessions}

CameraOps == {"get_camera_status", "ptz_control", "recall_preset", "get_presets"}

(* GET /camera/{uid}, POST .../ptz, POST .../preset/{id}, GET .../presets *)
CameraResponses(o) ==
    {NetFailure(e) : e \in NetErrors}
    \cup {Json(1, "bad", [none |-> TRUE])}
    \cup (IF o = "get_camera_status"
            THEN {Json(0, "ok", [status |-> 1, name |-> "Cam1", uid |-> "U1"]),
                  Json(0, "ok", [status |-> 0, name |-> "Cam1", uid |-> "U1"]),
                  Json(0, "ok", [status |-> 2, name |-> "Cam1", uid |-> "U1"]),
                  Json(0, "ok", [uid |-> "U1"])}
          ELSE IF o = "get_presets"
            THEN {Json(0, "ok", [presets |-> <<"home">>]),
                  Json(0, "ok", [none |-> TRUE])}
          ELSE {Json(0, "ok", [none |-> TRUE])})

-----------------------------------------------------------------------------
(* ReonlinkCloudAPI: src/app.py:31-158. *)

(* Python's "not self.access_token": None or the empty string. *)
TokenFalsy(t) == t = None \/ t = ""

(* dict.get(k): the value under k, None when d has no key k. *)
Get(d, k) == IF k \in DOMAIN d THEN d[k] ELSE None

(* StatusReturn with "if camera_data.get('status')" for the comparison. *)
StatusReturnTruthy(r) ==
    IF ~r.ok THEN [error |-> r.err]
    ELSE IF r.code = 0
      THEN [status |-> IF "status" \in DOMAIN r.data /\ r.data.status # 0
                         THEN "Online" ELSE "Offline",
            name |-> Get(r.data, "name"), uid |-> Get(r.data, "uid"),
            pan |-> 0, tilt |-> 0, zoom |-> 1]
    ELSE [error |-> r.msg]

(* Lines 78-92: what get_camera_status returns for the response r. *)
StatusReturn(r) ==
    IF ~r.ok THEN [error |-> r.err]
    ELSE IF r.code = 0
      THEN [status |-> IF "status" \in DOMAIN r.data /\ r.data.status = 1
                         THEN "Online" ELSE "Offline",
            name |-> Get(r.data, "name"), uid |-> Get(r.data, "uid"),
            pan |-> 0, tilt |-> 0, zoom |-> 1]
    ELSE [error |-> r.msg]

(* PtzReturn that takes every 2xx response for a success. *)
PtzReturnAnyCode(direction, r) ==
    IF ~r.ok THEN [success |-> FALSE, error |-> r.err]
    ELSE [success |-> TRUE, message |-> <<direction, "command sent">>]

(* Lines 110-116: what ptz_control returns. *)
PtzReturn(direction, r) ==
    IF ~r.ok THEN [success |-> FALSE, error |-> r.err]
    ELSE IF r.code = 0
      THEN [success |-> TRUE, message |-> <<direction, "command sent">>]
    ELSE [success |-> FALSE, error |-> r.msg]

(* Lines 130-136: what recall_preset returns. *)
RecallReturn(r) ==
    IF ~r.ok THEN [success |-> FALSE, error |-> r.err]
    ELSE IF r.code = 0 THEN [success |-> TRUE, message |-> "Preset recalled"]
    ELSE [success |-> FALSE, error |-> r.msg]

(* A Python list, as a value that can be told from a dict. *)
List(s) == [list |-> s]

(* PresetsReturn that reports a failure as get_camera_status does. *)
PresetsReturnErrorObject(r) ==
    IF ~r.ok THEN [error |-> r.err]
    ELSE IF r.code = 0
      THEN List(IF "presets" \in DOMAIN r.data THEN r.data.presets ELSE <<>>)
    ELSE [error |-> r.msg]

(* Lines 150-158: what get_presets returns. *)
PresetsReturn(r) ==
    IF ~r.ok THEN List(<<>>)
    ELSE IF r.code = 0
      THEN List(IF "presets" \in DOMAIN r.data THEN r.data.presets ELSE <<>>)
    ELSE List(<<>>)

OpReturn(q, r) ==
    IF q.route = "get_camera_status" THEN StatusReturn(r)
    ELSE IF q.route = "ptz_control" THEN PtzReturn(q.direction, r)
    ELSE IF q.route = "recall_preset" THEN RecallReturn(r)
    ELSE PresetsReturn(r)

-----------------------------------------------------------------------------
(* Thread-local values. *)

NoReq == [route |-> "none"]
NoOut == [kind |-> "none"]
NoResp == [none |-> TRUE]
NoBearer == "-"

HttpOut(v) == [kind |-> "http", val |-> v]
RetOut(v) == [kind |-> "ret", val |-> v]
RaiseOut(e) == [kind |-> "raise", val |-> e]

(* How a method ends on the response r: the except clause's value, or *)
(* the exception the clause does not catch.                           *)
OpOutcome(q, r) ==
    IF ~r.ok /\ ~Caught(r.err) THEN RaiseOut(r.err)
    ELSE RetOut(OpReturn(q, r))

(* Lines 73, 101-105, 125, 145: the request a method sends. *)
PtzPayload(direction, value) == [k \in {direction} |-> value]

OpRequest(q) ==
    IF q.route = "get_camera_status"
      THEN [method |-> "GET", path |-> <<"camera", q.camera_uid>>]
    ELSE IF q.route = "ptz_control"
      THEN [method |-> "POST", path |-> <<"camera", q.camera_uid, "ptz">>,
            json |-> PtzPayload(q.direction, q.value)]
    ELSE IF q.route = "recall_preset"
      THEN [method |-> "POST",
            path |-> <<"camera", q.camera_uid, "preset", q.preset_id>>]
    ELSE [method |-> "GET", path |-> <<"camera", q.camera_uid, "presets">>]

(* AfterAuth with the test of line 69 made again after authenticate(). *)
AfterAuthRecheck(t) == IF t = Main THEN "serving" ELSE "op_check"

(* Where authenticate() returns to: __init__ (line 40) on the start-up     *)
(* thread, the line after the call (72, 100, 124, 144) on a request thread. *)
AfterAuth(t) == IF t = Main THEN "serving" ELSE "op_headers"

AuthPcs == {"auth_post", "auth_set_access", "auth_set_refresh",
            "auth_set_expiration", "auth_return"}
OpPcs == {"op_check", "op_headers", "op_send"} \cup AuthPcs

(* Init without the call of line 40: the manager is built and serving. *)
InitWithoutLogin ==
    /\ now = 0
    /\ ticks = 0
    /\ valid_tokens = {}
    /\ issued = {}
    /\ access_token = None
    /\ refresh_token = None
    /\ token_expiration = <<>>
    /\ pc = [t \in Threads |-> IF t = Main THEN "serving" ELSE "idle"]
    /\ req = [t \in Threads |-> NoReq]
    /\ out = [t \in Threads |-> NoOut]
    /\ resp = [t \in Threads |-> NoResp]
    /\ camReq = [t \in Threads |-> NoResp]
    /\ camResp = [t \in Threads |-> NoResp]
    /\ authRet = [t \in Threads |-> "none"]
    /\ bearer = [t \in Threads |-> NoBearer]
    /\ nLogin = [t \in Threads |-> 0]
    /\ nCam = [t \in Threads |-> 0]
    /\ overwritten = [t \in Threads |-> FALSE]
    /\ loginSent = FALSE
    /\ opInvoked = FALSE

(* The state once lines 34-39 have run on the start-up thread (line 211),   *)
(* which is about to call self.authenticate() (line 40).                    *)
Init ==
    /\ now = 0
    /\ ticks = 0
    /\ valid_tokens = {}
    /\ issued = {}
    /\ access_token = None
    /\ refresh_token = None
    /\ token_expiration = <<>>
    /\ pc = [t \in Threads |-> IF t = Main THEN "auth_post" ELSE "idle"]
    /\ req = [t \in Threads |-> NoReq]
    /\ out = [t \in Threads |-> NoOut]
    /\ resp = [t \in Threads |-> NoResp]
    /\ camReq = [t \in Threads |-> NoResp]
    /\ camResp = [t \in Threads |-> NoResp]
    /\ authRet = [t \in Threads |-> "none"]
    /\ bearer = [t \in Threads |-> NoBearer]
    /\ nLogin = [t \in Threads |-> 0]
    /\ nCam = [t \in Threads |-> 0]
    /\ overwritten = [t \in Threads |-> FALSE]
    /\ loginSent = FALSE
    /\ opInvoked = FALSE

(* The clock advances by d hours. *)
Tick(d) ==
    /\ ticks < MaxTicks
    /\ now' = now + d
    /\ ticks' = ticks + 1
    /\ UNCHANGED <<authority, session, pc, locals, history>>

-----------------------------------------------------------------------------
(* authenticate(): src/app.py:42-64. *)

(* Where an exception no except clause of the manager catches ends: the *)
(* "except Exception" of line 212 at start-up, the route on a request.  *)
Unwound(t) == IF t = Main THEN "down" ELSE "respond"

(* Lines 45-54 and 59-64: the login request; on a RequestException or a   *)
(* code other than 0 the method is about to return False.                 *)
AuthPost(t) ==
    /\ pc[t] = "auth_post"
    /\ \E r \in LoginResponses :
         /\ loginSent' = TRUE
         /\ nLogin' = [nLogin EXCEPT ![t] = nLogin[t] + 1]
         /\ IF r.ok /\ r.code = 0
              THEN /\ pc' = [pc EXCEPT ![t] = "auth_set_access"]
                   /\ resp' = [resp EXCEPT ![t] = r]
                   /\ authRet' = [authRet EXCEPT ![t] = "none"]
                   /\ UNCHANGED out
              ELSE IF r.ok \/ Caught(r.err)
                THEN /\ pc' = [pc EXCEPT ![t] = "auth_return"]
                     /\ resp' = [resp EXCEPT ![t] = r]
                     /\ authRet' = [authRet EXCEPT ![t] = "False"]
                     /\ UNCHANGED out
              ELSE /\ pc' = [pc EXCEPT ![t] = Unwound(t)]
                   /\ out' = [out EXCEPT ![t] = RaiseOut(r.err)]
                   /\ UNCHANGED <<resp, authRet>>
    /\ UNCHANGED <<clock, authority, session, req, camReq, camResp, bearer, nCam,
                   overwritten, opInvoked>>

(* AuthSetAccess that keeps the token in a local, never in the field. *)
AuthSetAccessSkipped(t) ==
    /\ pc[t] = "auth_set_access"
    /\ pc' = [pc EXCEPT ![t] = "auth_set_refresh"]
    /\ UNCHANGED <<clock, authority, session, locals, history>>

(* Line 55. *)
AuthSetAccess(t) ==
    /\ pc[t] = "auth_set_access"
    /\ access_token' = resp[t].data.access_token
    /\ overwritten' = [u \in Threads |->
                         IF u # t /\ pc[u] = "op_send" THEN TRUE
                         ELSE overwritten[u]]
    /\ pc' = [pc EXCEPT ![t] = "auth_set_refresh"]
    /\ UNCHANGED <<clock, authority, refresh_token, token_expiration, req,
                   out, resp, camReq, camResp, authRet, bearer, nLogin, nCam, history>>

(* Line 56. *)
AuthSetRefresh(t) ==
    /\ pc[t] = "auth_set_refresh"
    /\ refresh_token' = resp[t].data.refresh_token
    /\ pc' = [pc EXCEPT ![t] = "auth_set_expiration"]
    /\ UNCHANGED <<clock, authority, access_token, token_expiration, locals,
                   history>>

(* SessionExpiry with the token's 24 hours for the manager's 23. *)
SessionExpiryDay(t) == <<t + TokenHours>>

(* Line 57: the expiry authenticate stores at time t. *)
SessionExpiry(t) == <<t + SessionHours>>

(* Line 57, after which the method is about to return True. *)
AuthSetExpiration(t) ==
    /\ pc[t] = "auth_set_expiration"
    /\ token_expiration' = SessionExpiry(now)
    /\ authRet' = [authRet EXCEPT ![t] = "True"]
    /\ pc' = [pc EXCEPT ![t] = "auth_return"]
    /\ UNCHANGED <<clock, authority, access_token, refresh_token, req, out,
                   resp, camReq, camResp, bearer, nLogin, nCam, overwritten, history>>

(* AuthReturn for a caller that gives up when authenticate() is False. *)
AuthReturnShortCircuit(t) ==
    /\ pc[t] = "auth_return"
    /\ resp' = [resp EXCEPT ![t] = NoResp]
    /\ IF t # Main /\ authRet[t] = "False"
         THEN /\ pc' = [pc EXCEPT ![t] = "respond"]
              /\ out' = [out EXCEPT ![t] =
                           RetOut([error |-> "Authentication failed"])]
         ELSE /\ pc' = [pc EXCEPT ![t] = AfterAuth(t)]
              /\ UNCHANGED out
    /\ UNCHANGED <<clock, authority, session, req, camReq, camResp, authRet,
                   bearer, nLogin, nCam, overwritten, history>>

(* Lines 58, 61, 64: authenticate() returns to its caller. *)
AuthReturn(t) ==
    /\ pc[t] = "auth_return"
    /\ resp' = [resp EXCEPT ![t] = NoResp]
    /\ pc' = [pc EXCEPT ![t] = AfterAuth(t)]
    /\ UNCHANGED <<clock, authority, session, req, out, camReq, camResp, authRet,
                   bearer, nLogin, nCam, overwritten, history>>

-----------------------------------------------------------------------------
(* The camera operations: src/app.py:66-158. *)

(* NeedsAuth that also looks at the stored expiry. *)
NeedsAuthOrExpired ==
    \/ TokenFalsy(access_token)
    \/ token_expiration # <<>> /\ token_expiration[1] < now

(* Lines 69-70, 97-98, 121-122, 141-142: whether the operation calls *)
(* self.authenticate() before building its headers.                  *)
NeedsAuth == TokenFalsy(access_token)

OpCheck(t) ==
    /\ pc[t] = "op_check"
    /\ pc' = [pc EXCEPT ![t] = IF NeedsAuth THEN "auth_post" ELSE "op_headers"]
    /\ UNCHANGED <<clock, authority, session, locals, history>>

(* OpHeaders with the headers built before the test of line 69: after a  *)
(* call of authenticate() they hold the value that test found absent.    *)
OpHeadersBeforeCheck(t) ==
    /\ pc[t] = "op_headers"
    /\ bearer' = [bearer EXCEPT ![t] =
                     IF nLogin[t] > 0 THEN None ELSE access_token]
    /\ overwritten' = [overwritten EXCEPT ![t] = FALSE]
    /\ pc' = [pc EXCEPT ![t] = "op_send"]
    /\ UNCHANGED <<clock, authority, session, req, out, resp, camReq, camResp,
                   authRet, nLogin, nCam, history>>

(* Lines 72, 100, 124, 144: headers = {'Authorization': f'Bearer {...}'}. *)
OpHeaders(t) ==
    /\ pc[t] = "op_headers"
    /\ bearer' = [bearer EXCEPT ![t] = access_token]
    /\ overwritten' = [overwritten EXCEPT ![t] = FALSE]
    /\ pc' = [pc EXCEPT ![t] = "op_send"]
    /\ UNCHANGED <<clock, authority, session, req, out, resp, camReq, camResp,
                   authRet, nLogin, nCam, history>>

(* OpSend that drops the cached token when the vendor answers non-2xx. *)
OpSendInvalidating(t) ==
    /\ pc[t] = "op_send"
    /\ \E r \in CameraResponses(req[t].route) :
         /\ camResp' = [camResp EXCEPT ![t] = r]
         /\ out' = [out EXCEPT ![t] = OpOutcome(req[t], r)]
         /\ access_token' = IF r = NetFailure("HTTPError") THEN None
                            ELSE access_token
    /\ camReq' = [camReq EXCEPT ![t] = OpRequest(req[t])]
    /\ nCam' = [nCam EXCEPT ![t] = nCam[t] + 1]
    /\ bearer' = [bearer EXCEPT ![t] = NoBearer]
    /\ authRet' = [authRet EXCEPT ![t] = "none"]
    /\ overwritten' = [overwritten EXCEPT ![t] = FALSE]
    /\ pc' = [pc EXCEPT ![t] = "respond"]
    /\ UNCHANGED <<clock, authority, refresh_token, token_expiration, req,
                   resp, nLogin, history>>

(* Lines 75-92, 107-116, 127-136, 147-158: the camera request, and the     *)
(* value the method returns for its response; its locals end with it.      *)
OpSend(t) ==
    /\ pc[t] = "op_send"
    /\ \E r \in CameraResponses(req[t].route) :
         /\ camResp' = [camResp EXCEPT ![t] = r]
         /\ out' = [out EXCEPT ![t] = OpOutcome(req[t], r)]
    /\ camReq' = [camReq EXCEPT ![t] = OpRequest(req[t])]
    /\ nCam' = [nCam EXCEPT ![t] = nCam[t] + 1]
    /\ bearer' = [bearer EXCEPT ![t] = NoBearer]
    /\ authRet' = [authRet EXCEPT ![t] = "none"]
    /\ overwritten' = [overwritten EXCEPT ![t] = FALSE]
    /\ pc' = [pc EXCEPT ![t] = "respond"]
    /\ UNCHANGED <<clock, authority, session, req, resp, nLogin, history>>

-----------------------------------------------------------------------------
(* What clients send. *)

Credentials ==
    {[id |-> i, password |-> p] :
        i \in {WEBSITE_ID, "861"}, p \in {WEBSITE_PASSWORD, "sea"}}

(* A registered token with its expiry pushed back and the old signature. *)
Tampered(k) == [k EXCEPT !.exp = k.exp + TokenHours]

(* A token signed with a key that is not SECRET_KEY. *)
MisSigned ==
    JwtEncode([user_id |-> WEBSITE_ID, exp |-> now + TokenHours, iat |-> now],
              "guess")

(* A token this server signed in an earlier run: not in this registry. *)
Stale ==
    JwtEncode([user_id |-> WEBSITE_ID, exp |-> now + TokenHours - 1,
               iat |-> now - 1], SECRET_KEY)

ClientTokens ==
    valid_tokens \cup {Tampered(k) : k \in valid_tokens}
                 \cup {MisSigned, Stale, W("garbage"), W("")}

(* Every shape of header. *)
ClientHeaders ==
    {NoHeader, Header(<<W("")>>), Header(<<W("Bearer")>>)}
    \cup {Header(<<W(s), k>>) : s \in {"Bearer", "Basic"}, k \in ClientTokens}
    \cup {Header(<<k>>) : k \in valid_tokens}
    \cup {Header(<<W("Bearer"), W(""), k>>) : k \in valid_tokens}

(* The headers of a well-behaved client, and one per rejection. *)
BearerHeaders ==
    {NoHeader, Header(<<W("Bearer")>>)}
    \cup {Header(<<W("Bearer"), k>>) : k \in valid_tokens \cup {Stale}}

CameraRequests(ops, headers) ==
    {[route |-> o, hdr |-> h, camera_uid |-> "U1", direction |-> "pan",
      value |-> 10, preset_id |-> "P1"] :
        o \in ops, h \in headers}

-----------------------------------------------------------------------------
(* Routes. *)

(* POST /api/auth/login: lines 218-224 and the comparison with the fixed   *)
(* credentials that follows them.                                          *)
login(t, id, password) ==
    IF id = WEBSITE_ID /\ password = WEBSITE_PASSWORD
      THEN /\ \/ NewToken(id, now) \in valid_tokens
              \/ Cardinality(valid_tokens) < MaxTokens
           /\ generate_token(id)
           /\ out' = [out EXCEPT ![t] =
                        HttpOut([success |-> TRUE, token |-> NewToken(id, now)])]
      ELSE /\ UNCHANGED <<valid_tokens, issued>>
           /\ out' = [out EXCEPT ![t] = HttpOut([success |-> FALSE])]

Login(t) ==
    /\ pc[Main] = "serving"
    /\ pc[t] = "idle"
    /\ \E c \in Credentials :
         /\ req' = [req EXCEPT ![t] =
                      [route |-> "login", id |-> c.id, password |-> c.password]]
         /\ login(t, c.id, c.password)
    /\ pc' = [pc EXCEPT ![t] = "respond"]
    /\ UNCHANGED <<clock, session, resp, camReq, camResp, authRet, bearer, nLogin,
                   nCam, overwritten, history>>

(* The body of a camera route: it calls the reolink_api method. *)
CameraHandler(t) ==
    /\ pc' = [pc EXCEPT ![t] = "op_check"]
    /\ opInvoked' = TRUE
    /\ UNCHANGED out

(* Lines 188-200: decorated() answers 401 or calls the route it wraps. *)
decorated(t, q) ==
    LET r == token_required(q.hdr)
    IN  IF r # CallF
          THEN /\ out' = [out EXCEPT ![t] = HttpOut(r)]
               /\ pc' = [pc EXCEPT ![t] = "respond"]
               /\ UNCHANGED opInvoked
          ELSE CameraHandler(t)

CameraRequest(t, requests) ==
    /\ pc[Main] = "serving"
    /\ pc[t] = "idle"
    /\ \E q \in requests :
         /\ req' = [req EXCEPT ![t] = q]
         /\ decorated(t, q)
    /\ UNCHANGED <<clock, authority, session, resp, camReq, camResp, authRet, bearer,
                   nLogin, nCam, overwritten, loginSent>>

(* The response is sent and the thread takes the next request. *)
Respond(t) ==
    /\ pc[t] = "respond"
    /\ pc' = [pc EXCEPT ![t] = "idle"]
    /\ req' = [req EXCEPT ![t] = NoReq]
    /\ out' = [out EXCEPT ![t] = NoOut]
    /\ camReq' = [camReq EXCEPT ![t] = NoResp]
    /\ camResp' = [camResp EXCEPT ![t] = NoResp]
    /\ nLogin' = [nLogin EXCEPT ![t] = 0]
    /\ nCam' = [nCam EXCEPT ![t] = 0]
    /\ UNCHANGED <<clock, authority, session, resp, authRet, bearer,
                   overwritten, history>>

-----------------------------------------------------------------------------
(* The manager under two request threads and a well-behaved client, the    *)
(* clock moving a day at a time.                                           *)

Authenticate(t) ==
    \/ AuthPost(t)
    \/ AuthSetAccess(t)
    \/ AuthSetRefresh(t)
    \/ AuthSetExpiration(t)
    \/ AuthReturn(t)

Operation(t) ==
    \/ OpCheck(t)
    \/ OpHeaders(t)
    \/ OpSend(t)

Next ==
    \/ \E d \in DayStep : Tick(d)
    \/ \E t \in Threads : Authenticate(t)
    \/ \E t \in Workers : Login(t)
    \/ \E t \in Workers : CameraRequest(t, CameraRequests(CameraOps, BearerHeaders))
    \/ \E t \in Workers : Operation(t)
    \/ \E t \in Workers : Respond(t)

Spec == Init /\ [][Next]_vars

(* The manager within one hour, with every thread scheduled: a thread    *)
(* that can take a step of a method or send its response does so in the  *)
(* end (each vendor request has timeout=10, lines 50, 75, 107, 127, 147, *)
(* so none waits for ever). No method reads the clock.                   *)
NextFair ==
    \/ \E t \in Threads : Authenticate(t)
    \/ \E t \in Workers : Login(t)
    \/ \E t \in Workers :
         CameraRequest(t, CameraRequests(CameraOps, BearerHeaders))
    \/ \E t \in Workers : Operation(t)
    \/ \E t \in Workers : Respond(t)

SpecFair ==
    /\ Init /\ [][NextFair]_vars
    /\ \A t \in Threads :
         WF_vars(Authenticate(t) \/ Operation(t) \/ Respond(t))

(* The session authority under one request thread and every client input,  *)
(* the clock moving by an hour, a day less an hour, or a day.               *)

NextAuthority ==
    \/ \E d \in TickSteps : Tick(d)
    \/ Authenticate(Main)
    \/ Authenticate(1)
    \/ Login(1)
    \/ CameraRequest(1, CameraRequests(CameraOps, ClientHeaders))
    \/ Operation(1)
    \/ Respond(1)

SpecAuthority == Init /\ [][NextAuthority]_vars

-----------------------------------------------------------------------------
(* Properties of the session authority, checked under SpecAuthority. *)

IsJwt(k) == DOMAIN k = JwtFields

(* C1: every token generate_token has returned verifies at every time from *)
(* its issue up to, and not including, 24 hours after it, whatever logins, *)
(* validations and camera operations have run since.                       *)
C1_IssuedTokenValidFor24h ==
    \A k \in issued : now < k.iat + 24 => verify_token(k) = "True"

(* A token issued 23 hours ago, after camera requests, still verifies. *)
C1_Witness ==
    \E k \in issued :
        /\ now = k.iat + 23
        /\ verify_token(k) = "True"
        /\ opInvoked

(* C2: verify_token answers true exactly for a token that is in the        *)
(* registry, carries a signature made with SECRET_KEY and has its expiry   *)
(* in the future; for every other token it answers false; it never raises. *)
C2_VerifyIffRegisteredSignedUnexpired ==
    \A k \in ClientTokens :
        /\ verify_token(k) \in {"True", "False"}
        /\ verify_token(k) = "True" <=>
              /\ k \in valid_tokens
              /\ IsJwt(k)
              /\ k.sig = Hmac(k, SECRET_KEY)
              /\ k.exp > now

(* The gate has turned away a registered token that is past its expiry. *)
C2_Witness ==
    /\ pc[1] = "respond"
    /\ req[1].route \in CameraOps
    /\ Len(req[1].hdr.parts) = 2
    /\ req[1].hdr.parts[2] \in valid_tokens
    /\ req[1].hdr.parts[2].exp <= now
    /\ verify_token(req[1].hdr.parts[2]) = "False"
    /\ out[1] = HttpOut(Unauthorized("Invalid token"))

(* A worker takes a camera request in this step. *)
TakesCameraRequest(t) == pc[t] = "idle" /\ req'[t].route \in CameraOps

(* The gate's answer to the request thread t has just taken is a 401 with *)
(* this message, and the route is not run.                                *)
Rejects(t, message) ==
    /\ out'[t] = HttpOut(Unauthorized(message))
    /\ out'[t].val.status = 401
    /\ pc'[t] = "respond"

Runs(t) == pc'[t] = "op_check" /\ out'[t] = NoOut

(* C3 as amended: the gate gives every camera request exactly one of four  *)
(* outcomes: no Authorization header, or an empty one, is rejected with    *)
(* 'No token provided'; a non-empty header without a second space-         *)
(* separated part with 'Invalid token format'; a header whose second part  *)
(* does not verify with 'Invalid token'; otherwise the route runs.  The    *)
(* three rejections all carry status 401.                                  *)
C3_GateFourOutcomes ==
    [][\A t \in Workers : TakesCameraRequest(t) =>
          LET h == req'[t].hdr
          IN  IF ~h.present \/ h.parts = <<W("")>>
                THEN Rejects(t, "No token provided")
              ELSE IF Len(h.parts) < 2
                THEN Rejects(t, "Invalid token format")
              ELSE IF verify_token(h.parts[2]) # "True"
                THEN Rejects(t, "Invalid token")
              ELSE Runs(t)]_vars

(* An empty Authorization header has been answered 'No token provided'. *)
C3_Witness ==
    /\ pc[1] = "respond"
    /\ req[1].route \in CameraOps
    /\ req[1].hdr = Header(<<W("")>>)
    /\ out[1] = HttpOut(Unauthorized("No token provided"))

(* C3 as stated: 'No token provided' is the answer to a missing header     *)
(* only, and every header without a second space-separated part is         *)
(* answered 'Invalid token format'.                                        *)
C3_AsStated ==
    [][\A t \in Workers : TakesCameraRequest(t) =>
          LET h == req'[t].hdr
          IN  IF ~h.present
                THEN Rejects(t, "No token provided")
              ELSE IF Len(h.parts) < 2
                THEN Rejects(t, "Invalid token format")
              ELSE IF verify_token(h.parts[2]) # "True"
                THEN Rejects(t, "Invalid token")
              ELSE Runs(t)]_vars

(* C4: a login with exactly the fixed id and password returns a token and *)
(* adds that token, and nothing else, to the registry; a login with any   *)
(* other pair is refused, returns no token and leaves the registry as it  *)
(* was.                                                                   *)
C4_LoginIssuesOnlyForFixedPair ==
    [][\A t \in Workers : (pc[t] = "idle" /\ req'[t].route = "login") =>
          LET r == out'[t].val
          IN  IF req'[t].id = "860" /\ req'[t].password = "ocean"
                THEN /\ r.success
                     /\ r.token \in valid_tokens'
                     /\ valid_tokens' = valid_tokens \cup {r.token}
                     /\ JwtDecode(r.token, SECRET_KEY, now') = "ok"
                ELSE /\ ~r.success
                     /\ "token" \notin DOMAIN r
                     /\ valid_tokens' = valid_tokens]_vars

(* A login with the fixed pair has been answered with a registered token. *)
C4_Witness ==
    /\ pc[1] = "respond"
    /\ req[1] = [route |-> "login", id |-> "860", password |-> "ocean"]
    /\ out[1].val.success
    /\ out[1].val.token \in valid_tokens

-----------------------------------------------------------------------------
(* Properties of the credential manager, checked under Spec. *)

Absent(x) == x = None
SessionExpired == token_expiration # <<>> /\ token_expiration[1] < now

(* The thread t takes a step in this transition. *)
Steps(t) == pc'[t] # pc[t]

(* C5: a camera request enters the manager only in the step in which the  *)
(* gate has verified its token; a request the gate rejects sends nothing  *)
(* to the vendor and leaves access_token, refresh_token and               *)
(* token_expiration as they were.                                         *)
C5_GateBeforeDelegate ==
    /\ [][\A t \in Workers : TakesCameraRequest(t) =>
             LET h == req'[t].hdr
                 valid == /\ h.present
                          /\ Len(h.parts) >= 2
                          /\ verify_token(h.parts[2]) = "True"
             IN  /\ pc'[t] \in OpPcs <=> valid
                 /\ ~valid => /\ pc'[t] = "respond"
                              /\ out'[t].val.status = 401
                              /\ UNCHANGED <<session, nLogin, nCam, loginSent>>]_vars
    /\ [](\A t \in Workers :
             /\ pc[t] \in OpPcs =>
                   /\ req[t].route \in CameraOps
                   /\ req[t].hdr.parts[2] \in valid_tokens
             /\ (pc[t] = "respond" /\ out[t].kind = "http") =>
                   nLogin[t] = 0 /\ nCam[t] = 0)

(* The gate has rejected a camera request while the manager held no       *)
(* session, and the manager still holds none.                             *)
C5_Witness ==
    /\ pc[1] = "respond"
    /\ req[1].route \in CameraOps
    /\ out[1] = HttpOut(Unauthorized("Invalid token"))
    /\ Absent(access_token)
    /\ pc[2] = "idle"

(* C6: authenticate() returns true exactly when the login response has    *)
(* code 0, and then it has assigned the response's access_token and       *)
(* refresh_token and an expiry 23 hours after the assignment; when the    *)
(* vendor reports a failure or the network fails it returns false and     *)
(* assigns none of the three fields.                                      *)
C6_AuthenticateContract ==
    /\ [](\A t \in Threads : pc[t] = "auth_return" =>
             /\ authRet[t] \in {"True", "False"}
             /\ authRet[t] = "True" <=> (resp[t].ok /\ resp[t].code = 0)
             /\ (t = Main /\ authRet[t] = "True") =>
                   /\ access_token = resp[t].data.access_token
                   /\ refresh_token = resp[t].data.refresh_token
                   /\ token_expiration # <<>>)
    /\ [][\A t \in Threads : Steps(t) =>
             /\ pc[t] = "auth_post" => UNCHANGED session
             /\ pc[t] = "auth_set_access" =>
                   /\ access_token' = resp[t].data.access_token
                   /\ UNCHANGED <<refresh_token, token_expiration>>
             /\ pc[t] = "auth_set_refresh" =>
                   /\ refresh_token' = resp[t].data.refresh_token
                   /\ UNCHANGED <<access_token, token_expiration>>
             /\ pc[t] = "auth_set_expiration" =>
                   /\ token_expiration' = <<now + 23>>
                   /\ UNCHANGED <<access_token, refresh_token>>
             /\ pc[t] = "auth_return" => UNCHANGED session
             /\ (pc'[t] = "auth_return" /\ authRet'[t] = "False") =>
                   pc[t] = "auth_post"
             /\ (pc'[t] = "auth_return" /\ authRet'[t] = "True") =>
                   pc[t] = "auth_set_expiration"]_vars

(* A failed authenticate() is about to return with the session of an      *)
(* earlier success still stored.                                          *)
C6_Witness ==
    \E t \in Workers :
        /\ pc[t] = "auth_return"
        /\ authRet[t] = "False"
        /\ ~Absent(refresh_token)
        /\ token_expiration # <<>>

(* C7 as amended: every vendor camera request carries as its bearer value *)
(* the access_token the operation read when it built its headers, after   *)
(* its own authenticate() call if it made one; that is the manager's      *)
(* access_token at the time of the request unless another invocation's    *)
(* authenticate() has assigned access_token in between.                   *)
C7_BearerIsTokenReadAtHeaders ==
    \A t \in Workers : pc[t] = "op_send" =>
        /\ bearer[t] # NoBearer
        /\ bearer[t] = access_token \/ overwritten[t]

(* An operation that made no login of its own is about to send the token  *)
(* an earlier login stored.                                               *)
C7_Witness ==
    \E t \in Workers :
        /\ pc[t] = "op_send"
        /\ nLogin[t] = 0
        /\ bearer[t] = "A"
        /\ access_token = "A"

(* C7 as stated: the bearer value of a camera request that is about to be *)
(* sent is the manager's access_token at that time.                       *)
C7_AsStated ==
    \A t \in Workers : pc[t] = "op_send" => bearer[t] = access_token

(* C8: each of the four camera operations calls authenticate() before its *)
(* vendor request exactly when access_token is absent at that moment; with *)
(* access_token present it makes no login call, whatever the stored       *)
(* expiry.                                                                *)
C8_PresenceOnlyReauthentication ==
    /\ [][\A t \in Workers : (pc[t] = "op_check" /\ Steps(t)) =>
             /\ req[t].route \in CameraOps
             /\ pc'[t] = "auth_post" <=> Absent(access_token)
             /\ ~Absent(access_token) => pc'[t] = "op_headers"
             /\ UNCHANGED <<nLogin, loginSent>>]_vars
    /\ [][\A t \in Workers : nLogin'[t] > nLogin[t] => pc[t] = "auth_post"]_vars

(* An operation found access_token present with the stored expiry in the  *)
(* past and went on to its headers without a login.                       *)
C8_Witness ==
    \E t \in Workers :
        /\ pc[t] = "op_headers"
        /\ nLogin[t] = 0
        /\ SessionExpired
        /\ ~Absent(access_token)

(* C9: a camera operation that starts when the stored expiry has passed   *)
(* performs a vendor login before its vendor camera request.              *)
C9_ReauthenticatesWhenExpired ==
    [][\A t \in Workers : (pc[t] = "op_check" /\ Steps(t) /\ SessionExpired) =>
          pc'[t] = "auth_post"]_vars

(* C10 as amended: the manager is constructed with all three session      *)
(* fields absent and makes exactly one vendor login call while it is      *)
(* constructed, before any request is served; every later vendor login    *)
(* request is made inside a camera operation.                             *)
C10_LoginAtConstructionThenInOperations ==
    /\ pc[Main] = "auth_post" =>
          /\ Absent(access_token) /\ Absent(refresh_token)
          /\ token_expiration = <<>>
          /\ ~loginSent
    /\ pc[Main] # "auth_post" => loginSent /\ nLogin[Main] = 1
    /\ pc[Main] # "serving" => ~opInvoked /\ \A t \in Workers : pc[t] = "idle"
    /\ \A t \in Workers : nLogin[t] > 0 =>
          /\ req[t].route \in CameraOps
          /\ opInvoked

(* The start-up login has been made and no camera operation has been      *)
(* invoked yet.                                                           *)
C10_Witness ==
    /\ pc[Main] = "serving"
    /\ loginSent
    /\ ~opInvoked

(* C10 as stated: no vendor login request is sent before the first camera *)
(* operation is invoked.                                                  *)
C10_AsStated == loginSent => opInvoked

-----------------------------------------------------------------------------
(* Properties of the camera operations' outcomes, checked under Spec. *)

(* The vendor call failed: an exception of requests, or a code other than 0. *)
Failed(r) == ~r.ok \/ r.code # 0

(* Thread t has come back from a manager method (not turned away with 401). *)
Returned(t) ==
    pc[t] = "respond" /\ req[t].route \in CameraOps /\ out[t].kind # "http"

(* The value a method hands back for a failed call, by operation. *)
FailureShaped(route, v) ==
    IF route = "get_camera_status" THEN DOMAIN v = {"error"}
    ELSE IF route = "get_presets" THEN v = List(<<>>)
    ELSE DOMAIN v = {"success", "error"} /\ v.success = FALSE

(* C11: whatever the vendor answered to the login call and to the camera  *)
(* call (timeout, connection failure, non-2xx status, non-zero code), a   *)
(* thread inside a manager method can always take its next step, and the  *)
(* method ends with a returned value, never with an exception; after a    *)
(* failed camera call that value is {error}, {success: false, error} or   *)
(* the empty list, according to the operation.                            *)
C11_NoFaultEscapes ==
    \A t \in Workers :
        /\ pc[t] \in OpPcs \cup AuthPcs
              => ENABLED (Authenticate(t) \/ Operation(t))
        /\ Returned(t)
              => /\ out[t].kind = "ret"
                 /\ Failed(camResp[t])
                       => FailureShaped(req[t].route, out[t].val)

(* A method whose login call and camera call both failed has returned. *)
C11_Witness ==
    \E t \in Workers :
        /\ Returned(t)
        /\ nLogin[t] = 1 /\ Absent(access_token)
        /\ camResp[t] = NetFailure("ConnectionError")
        /\ out[t] = RetOut([error |-> "ConnectionError"])

(* C12: one invocation sends at most one login request and at most one    *)
(* camera request; after a login that failed the thread is not back at    *)
(* the login request, and once the camera request is sent, whatever its   *)
(* outcome, the method has ended with its result.                         *)
C12_NoRetries ==
    \A t \in Threads :
        /\ nLogin[t] <= 1
        /\ nCam[t] <= 1
        /\ authRet[t] = "False" => nLogin[t] = 1 /\ pc[t] # "auth_post"
        /\ nCam[t] = 1 => pc[t] = "respond" /\ out[t].kind = "ret"

(* An invocation whose login failed and whose camera call failed is over, *)
(* having sent one request of each kind.                                  *)
C12_Witness ==
    \E t \in Workers :
        /\ pc[t] = "respond"
        /\ nLogin[t] = 1 /\ nCam[t] = 1
        /\ Absent(access_token)
        /\ Failed(camResp[t])

(* C13: of the invocations that run at once while access_token is absent, *)
(* several may call authenticate(); each one that found a token or whose  *)
(* own login the vendor accepted carries a token, not the absent value,   *)
(* when it is about to send its camera request, and every invocation      *)
(* comes to its end.                                                      *)
C13_ConcurrentFirstUse ==
    /\ [](\A t \in Workers :
            pc[t] = "op_send" /\ (nLogin[t] = 0 \/ authRet[t] = "True")
              => ~Absent(bearer[t]))
    /\ \A t \in Workers : [](pc[t] \in OpPcs => <>(pc[t] = "respond"))

(* Both request threads found access_token absent, both logged in, and  *)
(* both are about to send their camera request with a token.            *)
C13_Witness ==
    \A t \in Workers :
        /\ pc[t] = "op_send"
        /\ nLogin[t] = 1 /\ authRet[t] = "True"
        /\ ~Absent(bearer[t])

(* C14: whenever no thread is inside authenticate(), the stored session  *)
(* is either untouched or whole and from one login response: the access  *)
(* token and the refresh token are a pair the vendor issued together,    *)
(* and the expiry is set.                                                *)
C14_SessionFromOneResponse ==
    (\A t \in Threads : pc[t] \notin AuthPcs)
      => \/ /\ Absent(access_token)
            /\ Absent(refresh_token)
            /\ token_expiration = <<>>
         \/ /\ [access_token |-> access_token,
                refresh_token |-> refresh_token] \in VendorSessions
            /\ token_expiration # <<>>

(* C15: get_presets returns a list and never an error object: the list   *)
(* under 'presets' in the vendor's data when the call ended with code 0  *)
(* (the empty list when the data has no such key), and the empty list    *)
(* after a non-zero code, a timeout, a connection failure or a non-2xx   *)
(* status.                                                               *)
C15_PresetsListOrEmpty ==
    \A t \in Workers :
        Returned(t) /\ req[t].route = "get_presets"
          => LET r == camResp[t]
             IN  /\ DOMAIN out[t].val = {"list"}
                 /\ out[t].val.list =
                      IF ~Failed(r) /\ "presets" \in DOMAIN r.data
                        THEN r.data.presets ELSE <<>>

(* get_presets has returned the vendor's list on one thread and the *)
(* empty list after a non-zero code on the other.                   *)
C15_Witness ==
    \E t, u \in Workers :
        /\ Returned(t) /\ req[t].route = "get_presets"
        /\ camResp[t] = Json(0, "ok", [presets |-> <<"home">>])
        /\ out[t] = RetOut(List(<<"home">>))
        /\ Returned(u) /\ req[u].route = "get_presets"
        /\ camResp[u] = Json(1, "bad", [none |-> TRUE])
        /\ out[u] = RetOut(List(<<>>))

(* C16: ptz_control and recall_preset return success = true exactly when *)
(* the vendor call ended with code 0; after a non-zero code they return  *)
(* {success: false, error: the vendor's msg}; and the payload ptz_control *)
(* sends has one key, the direction, with the value under it.            *)
C16_SuccessIffCodeZero ==
    \A t \in Workers :
        Returned(t) /\ req[t].route \in {"ptz_control", "recall_preset"}
          => LET r == camResp[t]
                 v == out[t].val
             IN  /\ v.success = (r.ok /\ r.code = 0)
                 /\ r.ok /\ r.code # 0
                       => v = [success |-> FALSE, error |-> r.msg]
                 /\ req[t].route = "ptz_control"
                       => /\ DOMAIN camReq[t].json = {req[t].direction}
                          /\ camReq[t].json[req[t].direction] = req[t].value

(* ptz_control has come back from code 1, msg 'bad' on one thread, and *)
(* recall_preset from code 0 on the other.                             *)
C16_Witness ==
    \E t, u \in Workers :
        /\ Returned(t) /\ req[t].route = "ptz_control"
        /\ camResp[t] = Json(1, "bad", [none |-> TRUE])
        /\ out[t] = RetOut([success |-> FALSE, error |-> "bad"])
        /\ camReq[t].json = [k \in {"pan"} |-> 10]
        /\ Returned(u) /\ req[u].route = "recall_preset"
        /\ camResp[u] = Json(0, "ok", [none |-> TRUE])
        /\ out[u].val.success

(* C17: after code 0 get_camera_status returns status 'Online' exactly   *)
(* when the vendor's data has status 1 ('Offline' for any other value    *)
(* and for no status), the data's name and uid, and pan 0, tilt 0,       *)
(* zoom 1; after a non-zero code it returns {error: the vendor's msg}.   *)
C17_StatusMapping ==
    \A t \in Workers :
        Returned(t) /\ req[t].route = "get_camera_status" /\ camResp[t].ok
          => LET r == camResp[t]
                 v == out[t].val
             IN  IF r.code = 0
                   THEN /\ DOMAIN v = {"status", "name", "uid",
                                       "pan", "tilt", "zoom"}
                        /\ v.status \in {"Online", "Offline"}
                        /\ v.status = "Online"
                              <=> /\ "status" \in DOMAIN r.data
                                  /\ r.data.status = 1
                        /\ v.name = Get(r.data, "name")
                        /\ v.uid = Get(r.data, "uid")
                        /\ v.pan = 0 /\ v.tilt = 0 /\ v.zoom = 1
                   ELSE v = [error |-> r.msg]

(* One thread got status 1 and returned 'Online'; the other got status 2 *)
(* and returned 'Offline'.                                               *)
C17_Witness ==
    \E t, u \in Workers :
        /\ Returned(t) /\ req[t].route = "get_camera_status"
        /\ camResp[t].ok /\ camResp[t].code = 0
        /\ "status" \in DOMAIN camResp[t].data
        /\ camResp[t].data.status = 1
        /\ out[t].val.status = "Online"
        /\ Returned(u) /\ req[u].route = "get_camera_status"
        /\ camResp[u].ok /\ camResp[u].code = 0
        /\ "status" \in DOMAIN camResp[u].data
        /\ camResp[u].data.status = 2
        /\ out[u].val.status = "Offline"

-----------------------------------------------------------------------------
(* The registry over every operation, checked under SpecAuthority. *)

(* Thread t answers a login with a token. *)
IssueStep(t) ==
    pc[t] = "idle" /\ req'[t].route = "login" /\ out'[t].val.success

-----------------------------------------------------------------------------
(* The upstream session over the camera operations, checked under Spec. *)

(* Thread t runs one of the assignments of lines 55-57, which follow a *)
(* login response with code 0.                                         *)
StoresSession(t) ==
    /\ pc[t] \in {"auth_set_access", "auth_set_refresh", "auth_set_expiration"}
    /\ Steps(t)
    /\ resp[t].ok /\ resp[t].code = 0

(* Thread t sends a vendor login request. *)
SendsLogin(t) == nLogin'[t] > nLogin[t]

(* C19: the three session fields change only in the assignments that    *)
(* follow a successful login response; access_token, once stored, is     *)
(* never absent again; and an operation that tests access_token once it  *)
(* is stored goes on to its headers, the only way into a vendor login    *)
(* being that test finding it absent, so that the camera request's       *)
(* outcome, a rejection included, leads to no login. (An operation that  *)
(* found it absent earlier may still send its login after another        *)
(* thread's has succeeded.)                                              *)
C19_SessionSetOnlyByLogin ==
    /\ [][session' # session => \E t \in Threads : StoresSession(t)]_vars
    /\ [][~Absent(access_token) => ~Absent(access_token')]_vars
    /\ [][\A t \in Workers :
            /\ (pc[t] = "op_check" /\ Steps(t) /\ ~Absent(access_token))
                  => pc'[t] = "op_headers"
            /\ (pc'[t] = "auth_post" /\ Steps(t))
                  => pc[t] = "op_check" /\ Absent(access_token)]_vars

(* The vendor turned the cached token away with a non-2xx status and the *)
(* operation returned its error without a login, the token still stored. *)
C19_Witness ==
    \E t \in Workers :
        /\ Returned(t)
        /\ camResp[t] = NetFailure("HTTPError")
        /\ nLogin[t] = 0
        /\ ~Absent(access_token)
        /\ token_expiration # <<>>

(* C19 as stated: once an authenticate() has stored a whole session, no *)
(* camera operation sends a vendor login request.                       *)
C19_AsStated ==
    [][\A t \in Workers : SendsLogin(t) => token_expiration = <<>>]_vars

(* C20: an operation whose authenticate() returned False goes on to its  *)
(* headers and its camera request; the bearer value it sends is the      *)
(* absent one as long as access_token is still absent (another thread's  *)
(* login may have stored a token meanwhile); and every operation that    *)
(* has returned has sent its camera request, its value being the one     *)
(* that follows from that request's outcome alone.                       *)
C20_NoShortCircuit ==
    \A t \in Workers :
        /\ authRet[t] = "False"
              => pc[t] \in {"auth_return", "op_headers", "op_send"}
        /\ pc[t] = "op_send" /\ authRet[t] = "False" /\ Absent(access_token)
              => Absent(bearer[t])
        /\ Returned(t)
              => /\ nCam[t] = 1
                 /\ out[t] = OpOutcome(req[t], camResp[t])

(* After a failed login one thread is about to send its camera request  *)
(* with the absent bearer value, and the other, its login having failed *)
(* too, has returned what the vendor's code 0 gave it.                  *)
C20_Witness ==
    \E t, u \in Workers :
        /\ pc[t] = "op_send" /\ authRet[t] = "False" /\ Absent(bearer[t])
        /\ Returned(u) /\ req[u].route = "recall_preset"
        /\ nLogin[u] = 1 /\ Absent(access_token)
        /\ camResp[u] = Json(0, "ok", [none |-> TRUE])
        /\ out[u] = RetOut([success |-> TRUE, message |-> "Preset recalled"])

(* C20 as stated: after its authenticate() returned False an operation *)
(* sends the absent value as its bearer.                               *)
C20_AsStated ==
    \A t \in Workers :
        pc[t] = "op_send" /\ authRet[t] = "False" => Absent(bearer[t])

====
